---- MODULE Spec2Model ----
(***************************************************************************)
(* focusChrono: the Pomodoro session controller (class FocusTimer of       *)
(* focus/scripts/timer.js) together with the browser's interval table it   *)
(* drives through setInterval / clearInterval.                             *)
(*                                                                         *)
(* JavaScript runs every handler to completion, so each public method and  *)
(* each firing of an interval callback is one atomic action.  The three    *)
(* callback slots (onTick, onModeChange, onComplete) are bound as          *)
(* scripts/app.js binds them; the notifications one handler emits are      *)
(* recorded, in emission order, in the variable events.                    *)
(***************************************************************************)
EXTENDS Integers, Sequences, FiniteSets

\* ---------------------------------------------------------------- bounds
\* largest whole number of minutes handed to setFocusDuration/setBreakDuration
MaxMinutes == 2
\* size of the pool interval handles are drawn from
MaxHandles == 3
\* how far below zero the model follows timeLeft
MaxOverrun == 2

\* ------------------------------------------------------ program constants
DEFAULT_FOCUS_TIME == 25 * 60
DEFAULT_BREAK_TIME == 5 * 60

TimerState == [STOPPED |-> "stopped", RUNNING |-> "running", PAUSED |-> "paused"]

\* null, as the argument reset defaults to
null == "null"
\* null, as the value of intervalId: handles are positive, so that
\* `if (this.intervalId)` is the test intervalId # nullId
nullId == 0

\* ------------------------------------------------------------- the inputs
\* A minutes argument is the rational num/den.
WholeMinutes == {[num |-> n, den |-> 1] : n \in 1..MaxMinutes}
\* one sixtieth of a minute: the argument that configures a 1-second session
SubMinutes == {[num |-> 1, den |-> 60]}

\* the values setMode is called with: the two modes and one that is neither
ModeArgs == {"focus", "break", "long"}
\* the values reset is called with: no argument, or a mode
ResetArgs == {null, "focus", "break"}

\* an argument reset takes although it is no mode
BadResetArgs == {"long"}
\* a minutes argument the controller takes although it is no duration
ZeroMinutes == {[num |-> 0, den |-> 1]}

HandlePool == 1..MaxHandles

VARIABLES
    state,            \* this.state
    mode,             \* this.mode
    timeLeft,         \* this.timeLeft
    totalTime,        \* this.totalTime
    focusDuration,    \* this.focusDuration (seconds)
    breakDuration,    \* this.breakDuration (seconds)
    intervalId,       \* this.intervalId: nullId or a handle
    activeIntervals,  \* the browser's table of intervals not yet cleared
    events,           \* the notifications emitted by the last handler
    lastOp,           \* the last handler that ran: its name, its argument
                      \* and the status it was called in
    settings,         \* SettingsManager: this.settings
    heap,             \* the stats objects this.settings.stats may refer to
    storage,          \* localStorage
    today,            \* the day new Date().toDateString() names
    loaded,           \* whether `new SettingsManager()` returned an object
    result            \* what the last call of a store method returned

timerVars == <<state, mode, timeLeft, totalTime, focusDuration, breakDuration,
               intervalId, activeIntervals>>

storeVars == <<settings, heap, storage, today, loaded, result>>

vars == <<state, mode, timeLeft, totalTime, focusDuration, breakDuration,
          intervalId, activeIntervals, events, lastOp,
          settings, heap, storage, today, loaded, result>>

\* ---------------------------------------------------- the object as a value
\* The handlers are written as functions from the object (with the interval
\* table and the notifications emitted so far) to the object they leave.
Self ==
    [state |-> state, mode |-> mode, timeLeft |-> timeLeft,
     totalTime |-> totalTime, focusDuration |-> focusDuration,
     breakDuration |-> breakDuration, intervalId |-> intervalId,
     active |-> activeIntervals, out |-> <<>>]

Commit(o, op, arg) ==
    /\ state' = o.state
    /\ mode' = o.mode
    /\ timeLeft' = o.timeLeft
    /\ totalTime' = o.totalTime
    /\ focusDuration' = o.focusDuration
    /\ breakDuration' = o.breakDuration
    /\ intervalId' = o.intervalId
    /\ activeIntervals' = o.active
    /\ events' = o.out
    /\ lastOp' = [op |-> op, arg |-> arg, from |-> state]
    /\ UNCHANGED storeVars

\* ------------------------------------------------------------ the browser
\* setInterval returns a handle that no live interval and no reference uses.
\* Handles of cleared intervals that nothing refers to any more are reused:
\* they cannot be told apart from fresh ones.
FreeHandles(o) == {h \in HandlePool : h \notin o.active /\ h # o.intervalId}

setInterval(o) == CHOOSE h \in FreeHandles(o) : \A g \in FreeHandles(o) : h <= g

\* clearInterval(id): no effect when id is null or names no live interval
clearInterval(o, id) == [o EXCEPT !.active = @ \ {id}]

\* ---------------------------------------------------------- notifications
TickEvent(o) ==
    [type |-> "tick", timeLeft |-> o.timeLeft, totalTime |-> o.totalTime,
     mode |-> o.mode]

ModeChangeEvent(newMode, oldMode) ==
    [type |-> "modeChange", newMode |-> newMode, oldMode |-> oldMode]

CompleteEvent(m) == [type |-> "complete", mode |-> m]

onTick(o) == [o EXCEPT !.out = Append(@, TickEvent(o))]

onModeChange(o, newMode, oldMode) ==
    [o EXCEPT !.out = Append(@, ModeChangeEvent(newMode, oldMode))]

\* onComplete with no callback registered
onComplete_unregistered(o) == o

onComplete(o) == [o EXCEPT !.out = Append(@, CompleteEvent(o.mode))]

\* ------------------------------------------------------------ the methods
\* _complete that forgets clearInterval
_complete_leavesInterval(o) ==
    onComplete([o EXCEPT !.intervalId = nullId, !.state = TimerState.STOPPED])

_complete(o) ==
    LET o1 == clearInterval(o, o.intervalId)
        o2 == [o1 EXCEPT !.intervalId = nullId, !.state = TimerState.STOPPED]
    IN  onComplete(o2)

\* _tick that checks completion before it notifies
_tick_completeBeforeNotify(o) ==
    LET o1 == [o EXCEPT !.timeLeft = @ - 1]
    IN  IF o1.timeLeft <= 0 THEN onTick(_complete(o1)) ELSE onTick(o1)

_tick(o) ==
    LET o1 == [o EXCEPT !.timeLeft = @ - 1]
        o2 == onTick(o1)
    IN  IF o2.timeLeft <= 0 THEN _complete(o2) ELSE o2

\* start that leaves the first tick to the interval
start_deferredFirstTick(o) ==
    IF o.state = TimerState.RUNNING
    THEN o
    ELSE LET h == setInterval(o)
         IN  [o EXCEPT !.state = TimerState.RUNNING,
                       !.intervalId = h,
                       !.active = @ \cup {h}]

start(o) ==
    IF o.state = TimerState.RUNNING
    THEN o
    ELSE LET h  == setInterval(o)
             o1 == [o EXCEPT !.state = TimerState.RUNNING,
                             !.intervalId = h,
                             !.active = @ \cup {h}]
         IN  _tick(o1)

\* pause that drops the handle without clearing the interval
pause_leavesInterval(o) ==
    IF o.state # TimerState.RUNNING
    THEN o
    ELSE [o EXCEPT !.state = TimerState.PAUSED, !.intervalId = nullId]

pause(o) ==
    IF o.state # TimerState.RUNNING
    THEN o
    ELSE LET o1 == [o EXCEPT !.state = TimerState.PAUSED]
             o2 == clearInterval(o1, o1.intervalId)
         IN  [o2 EXCEPT !.intervalId = nullId]

\* resume that re-arms the interval without the immediate tick
resume_withoutTick(o) ==
    IF o.state # TimerState.PAUSED
    THEN o
    ELSE start_deferredFirstTick(o)

resume(o) ==
    IF o.state # TimerState.PAUSED
    THEN o
    ELSE start(o)

\* _resetTime that reloads timeLeft only
_resetTime_keepsTotal(o) ==
    IF o.mode = "focus"
    THEN [o EXCEPT !.timeLeft = o.focusDuration]
    ELSE [o EXCEPT !.timeLeft = o.breakDuration]

_resetTime(o) ==
    IF o.mode = "focus"
    THEN [o EXCEPT !.timeLeft = o.focusDuration, !.totalTime = o.focusDuration]
    ELSE [o EXCEPT !.timeLeft = o.breakDuration, !.totalTime = o.breakDuration]

\* reset that leaves the status as it finds it
reset_keepsStatus(o, m) ==
    LET o1 == IF o.intervalId # nullId
              THEN [clearInterval(o, o.intervalId) EXCEPT !.intervalId = nullId]
              ELSE o
        o3 == IF m # null THEN [o1 EXCEPT !.mode = m] ELSE o1
    IN  onTick(_resetTime(o3))

reset(o, m) ==
    LET o1 == IF o.intervalId # nullId
              THEN [clearInterval(o, o.intervalId) EXCEPT !.intervalId = nullId]
              ELSE o
        o2 == [o1 EXCEPT !.state = TimerState.STOPPED]
        o3 == IF m # null THEN [o2 EXCEPT !.mode = m] ELSE o2
    IN  onTick(_resetTime(o3))

\* setMode without the check of its argument
setMode_unvalidated(o, newMode) ==
    LET o1 == IF o.state = TimerState.RUNNING THEN pause(o) ELSE o
        oldMode == o1.mode
        o2 == [o1 EXCEPT !.mode = newMode]
        o3 == _resetTime(o2)
    IN  onTick(onModeChange(o3, newMode, oldMode))

setMode(o, newMode) ==
    IF newMode # "focus" /\ newMode # "break"
    THEN o
    ELSE LET o1 == IF o.state = TimerState.RUNNING THEN pause(o) ELSE o
             oldMode == o1.mode
             o2 == [o1 EXCEPT !.mode = newMode]
             o3 == _resetTime(o2)
         IN  onTick(onModeChange(o3, newMode, oldMode))

\* minutes * 60, for the rational minutes = num/den
Seconds(minutes) == (minutes.num * 60) \div minutes.den

\* setFocusDuration that reloads timeLeft only
setFocusDuration_keepsTotal(o, minutes) ==
    LET seconds == Seconds(minutes)
        o1 == [o EXCEPT !.focusDuration = seconds]
    IN  IF o1.mode = "focus" /\ o1.state = TimerState.STOPPED
        THEN onTick([o1 EXCEPT !.timeLeft = seconds])
        ELSE o1

setFocusDuration(o, minutes) ==
    LET seconds == Seconds(minutes)
        o1 == [o EXCEPT !.focusDuration = seconds]
    IN  IF o1.mode = "focus" /\ o1.state = TimerState.STOPPED
        THEN onTick([o1 EXCEPT !.timeLeft = seconds, !.totalTime = seconds])
        ELSE o1

\* setBreakDuration with the mode test of setFocusDuration
setBreakDuration_testsFocus(o, minutes) ==
    LET seconds == Seconds(minutes)
        o1 == [o EXCEPT !.breakDuration = seconds]
    IN  IF o1.mode = "focus" /\ o1.state = TimerState.STOPPED
        THEN onTick([o1 EXCEPT !.timeLeft = seconds, !.totalTime = seconds])
        ELSE o1

setBreakDuration(o, minutes) ==
    LET seconds == Seconds(minutes)
        o1 == [o EXCEPT !.breakDuration = seconds]
    IN  IF o1.mode = "break" /\ o1.state = TimerState.STOPPED
        THEN onTick([o1 EXCEPT !.timeLeft = seconds, !.totalTime = seconds])
        ELSE o1

destroy(o) ==
    IF o.intervalId # nullId
    THEN [clearInterval(o, o.intervalId) EXCEPT !.intervalId = nullId]
    ELSE o

(***************************************************************************)
(* The Preference Store (class SettingsManager) over localStorage.         *)
(*                                                                         *)
(* A JavaScript number is a record: NaN, or a whole number v.  A string is *)
(* the sequence of its characters, so that String(number) and parseInt are *)
(* computed digit by digit.  A date string (Date.toDateString) is the      *)
(* number of its day.  The JSON text of a stats object is written          *)
(* {sessionsToday,totalFocusTime,lastResetDate}, and the JSON text of null *)
(* is null; JSON.parse rejects every other text.                           *)
(***************************************************************************)

\* ---------------------------------------------------------- bounds (store)
\* the last day the model follows the calendar to
MaxDay == 3
\* how far the model follows stats.sessionsToday and stats.totalFocusTime
MaxSessions == 1
MaxFocusTime == 1

\* ------------------------------------------------------ JavaScript values
Num(n) == [nan |-> FALSE, v |-> n, tenths |-> 0]
NaN == [nan |-> TRUE, v |-> 0, tenths |-> 0]
\* the number n + d/10, for n >= 0 and d in 0..9
Decimal(n, d) == [nan |-> FALSE, v |-> n, tenths |-> d]
\* ten times the number x
TimesTen(x) == x.v * 10 + x.tenths

\* a < b and a > b on numbers: false as soon as one side is NaN
Lt(a, b) == ~a.nan /\ ~b.nan /\ TimesTen(a) < TimesTen(b)
Gt(a, b) == ~a.nan /\ ~b.nan /\ TimesTen(a) > TimesTen(b)

Digit == <<"0", "1", "2", "3", "4", "5", "6", "7", "8", "9">>
IsDigit(c) == \E i \in 1..10 : Digit[i] = c
DigitValue(c) == (CHOOSE i \in 1..10 : Digit[i] = c) - 1

RECURSIVE Digits(_)
\* the decimal digits of n >= 0
Digits(n) == IF n < 10 THEN <<Digit[n + 1]>>
             ELSE Append(Digits(n \div 10), Digit[(n % 10) + 1])

\* String(x) of a number
NumberToString(x) ==
    IF x.nan THEN <<"N", "a", "N">>
    ELSE IF x.v < 0 THEN <<"-">> \o Digits(-x.v)
    ELSE IF x.tenths # 0 THEN Digits(x.v) \o <<".", Digit[x.tenths + 1]>>
    ELSE Digits(x.v)

\* String(b) of a boolean
BooleanToString(b) ==
    IF b THEN <<"t", "r", "u", "e">> ELSE <<"f", "a", "l", "s", "e">>

RECURSIVE LeadingDigits(_)
\* the longest prefix of text made of digits
LeadingDigits(text) ==
    IF text = <<>> \/ ~IsDigit(Head(text)) THEN <<>>
    ELSE <<Head(text)>> \o LeadingDigits(Tail(text))

RECURSIVE DigitsValue(_)
DigitsValue(ds) ==
    IF ds = <<>> THEN 0
    ELSE DigitsValue(SubSeq(ds, 1, Len(ds) - 1)) * 10 + DigitValue(ds[Len(ds)])

RECURSIVE SkipSpaces(_)
SkipSpaces(text) ==
    IF text # <<>> /\ Head(text) = " " THEN SkipSpaces(Tail(text)) ELSE text

\* parseInt(text): leading blanks, an optional sign, then digits up to the
\* first character that is none; NaN when there is no digit
parseInt(text) ==
    LET t    == SkipSpaces(text)
        neg  == t # <<>> /\ Head(t) = "-"
        body == IF t # <<>> /\ Head(t) \in {"-", "+"} THEN Tail(t) ELSE t
        ds   == LeadingDigits(body)
    IN  IF ds = <<>> THEN NaN
        ELSE Num(IF neg THEN -DigitsValue(ds) ELSE DigitsValue(ds))

\* the strings the code names
dark == <<"d", "a", "r", "k">>
light == <<"l", "i", "g", "h", "t">>
true == <<"t", "r", "u", "e">>

\* null, as stats.lastResetDate: a day is positive
nullDate == 0

\* ------------------------------------------------------------ localStorage
STORAGE_KEYS ==
    [FOCUS_DURATION |-> "focusDuration", BREAK_DURATION |-> "breakDuration",
     SOUND_ENABLED |-> "soundEnabled", THEME |-> "theme", STATS |-> "focusStats"]

StorageKeys == {STORAGE_KEYS.FOCUS_DURATION, STORAGE_KEYS.BREAK_DURATION,
                STORAGE_KEYS.SOUND_ENABLED, STORAGE_KEYS.THEME,
                STORAGE_KEYS.STATS}

\* getItem of a key never set
Absent == [has |-> FALSE]
\* getItem of a key set to text
Stored(text) == [has |-> TRUE, text |-> text]

\* ---------------------------------------------------------------- the heap
\* settings.stats is a reference: to the object literal of this.defaults
\* (which the shallow copies {...this.defaults} share), to the object
\* JSON.parse made, or null.
DefaultsStats == "defaults.stats"
ParsedStats == "parsed"
nullRef == "null"

ZeroStats == [sessionsToday |-> 0, totalFocusTime |-> 0, lastResetDate |-> nullDate]

\* this.defaults; its stats object lives in the heap
defaults ==
    [focusDuration |-> Num(25), breakDuration |-> Num(5), soundEnabled |-> TRUE,
     theme |-> dark, stats |-> DefaultsStats]

\* the text JSON.stringify gives for null
nullText == <<"n", "u", "l", "l">>

\* JSON.stringify(this.settings.stats)
JSON_stringify(s, ref) ==
    IF ref = nullRef THEN nullText
    ELSE <<"{">> \o Digits(s.heap[ref].sessionsToday) \o <<",">>
               \o Digits(s.heap[ref].totalFocusTime) \o <<",">>
               \o Digits(s.heap[ref].lastResetDate) \o <<"}">>

RECURSIVE Fields(_)
\* the pieces of text between its commas
Fields(text) ==
    LET first == LeadingDigits(text)
        rest  == SubSeq(text, Len(first) + 1, Len(text))
    IN  IF rest = <<>> THEN <<first>>
        ELSE IF Head(rest) = "," THEN <<first>> \o Fields(Tail(rest))
        ELSE <<first, <<>>, <<>>, <<>>, <<>>>>

\* JSON.parse(text): throws (ok is false), or gives null or a stats object
JSON_parse(text) ==
    IF text = nullText THEN [ok |-> TRUE, isNull |-> TRUE, value |-> ZeroStats]
    ELSE IF Len(text) < 2 \/ Head(text) # "{" \/ text[Len(text)] # "}"
         THEN [ok |-> FALSE, isNull |-> FALSE, value |-> ZeroStats]
    ELSE LET fs == Fields(SubSeq(text, 2, Len(text) - 1)) IN
         IF Len(fs) # 3 \/ \E i \in 1..Len(fs) : fs[i] = <<>>
         THEN [ok |-> FALSE, isNull |-> FALSE, value |-> ZeroStats]
         ELSE [ok |-> TRUE, isNull |-> FALSE,
               value |-> [sessionsToday |-> DigitsValue(fs[1]),
                          totalFocusTime |-> DigitsValue(fs[2]),
                          lastResetDate |-> DigitsValue(fs[3])]]

\* ------------------------------------------------- the store as a value
\* The methods are functions from the store (its settings, the heap, the
\* storage, the notifications emitted so far, the value returned and whether
\* an exception escaped) to the store they leave.

\* the notification onSettingsChange(key, newValue, oldValue)
ChangeEvent(key, newValue, oldValue) ==
    [type |-> "change", key |-> key, newValue |-> newValue, oldValue |-> oldValue]

_notifyChange(s, key, newValue, oldValue) ==
    [s EXCEPT !.out = Append(@, ChangeEvent(key, newValue, oldValue))]

\* the five setItem calls of _saveSettings, in their order
SaveWrites(s) ==
    <<<<STORAGE_KEYS.FOCUS_DURATION, NumberToString(s.settings.focusDuration)>>,
      <<STORAGE_KEYS.BREAK_DURATION, NumberToString(s.settings.breakDuration)>>,
      <<STORAGE_KEYS.SOUND_ENABLED, BooleanToString(s.settings.soundEnabled)>>,
      <<STORAGE_KEYS.THEME, s.settings.theme>>,
      <<STORAGE_KEYS.STATS, JSON_stringify(s, s.settings.stats)>>>>

\* the storage after the first k writes of ws
WriteFirst(storage0, ws, k) ==
    [key \in StorageKeys |->
        IF \E i \in 1..k : ws[i][1] = key
        THEN Stored(ws[CHOOSE i \in 1..k : ws[i][1] = key][2])
        ELSE storage0[key]]

\* every outcome of _saveSettings: k setItem calls succeed, then one throws
\* and the catch block swallows it; k = 5 when none throws
SaveOutcomes == 0..5
\* the outcome in which no setItem throws
AllSaved == 5

_saveSettings(s, k) ==
    [s EXCEPT !.storage = WriteFirst(s.storage, SaveWrites(s), k)]

\* _loadSettings without the test for a missing focusDuration: parseInt(null)
_loadSettings_parsesMissing(s, readThrows) ==
    IF readThrows
    THEN [s EXCEPT !.settings = defaults]
    ELSE LET focusDuration_ == s.storage[STORAGE_KEYS.FOCUS_DURATION]
             breakDuration_ == s.storage[STORAGE_KEYS.BREAK_DURATION]
             soundEnabled == s.storage[STORAGE_KEYS.SOUND_ENABLED]
             theme == s.storage[STORAGE_KEYS.THEME]
             stats == s.storage[STORAGE_KEYS.STATS]
             s1 == IF focusDuration_.has
                   THEN [s EXCEPT !.settings.focusDuration = parseInt(focusDuration_.text)]
                   ELSE [s EXCEPT !.settings.focusDuration = parseInt(nullText)]
             s2 == IF breakDuration_.has
                   THEN [s1 EXCEPT !.settings.breakDuration = parseInt(breakDuration_.text)]
                   ELSE s1
             s3 == IF soundEnabled.has
                   THEN [s2 EXCEPT !.settings.soundEnabled = (soundEnabled.text = true)]
                   ELSE s2
             s4 == IF theme.has
                   THEN [s3 EXCEPT !.settings.theme = theme.text]
                   ELSE s3
         IN  IF ~stats.has THEN s4
             ELSE IF ~JSON_parse(stats.text).ok THEN [s4 EXCEPT !.settings = defaults]
             ELSE IF JSON_parse(stats.text).isNull
                  THEN [s4 EXCEPT !.settings.stats = nullRef]
             ELSE [s4 EXCEPT !.heap[ParsedStats] = JSON_parse(stats.text).value,
                             !.settings.stats = ParsedStats]

\* readThrows: a getItem throws; they all run before the first assignment
_loadSettings(s, readThrows) ==
    IF readThrows
    THEN [s EXCEPT !.settings = defaults]
    ELSE LET focusDuration_ == s.storage[STORAGE_KEYS.FOCUS_DURATION]
             breakDuration_ == s.storage[STORAGE_KEYS.BREAK_DURATION]
             soundEnabled == s.storage[STORAGE_KEYS.SOUND_ENABLED]
             theme == s.storage[STORAGE_KEYS.THEME]
             stats == s.storage[STORAGE_KEYS.STATS]
             s1 == IF focusDuration_.has
                   THEN [s EXCEPT !.settings.focusDuration = parseInt(focusDuration_.text)]
                   ELSE s
             s2 == IF breakDuration_.has
                   THEN [s1 EXCEPT !.settings.breakDuration = parseInt(breakDuration_.text)]
                   ELSE s1
             s3 == IF soundEnabled.has
                   THEN [s2 EXCEPT !.settings.soundEnabled = (soundEnabled.text = true)]
                   ELSE s2
             s4 == IF theme.has
                   THEN [s3 EXCEPT !.settings.theme = theme.text]
                   ELSE s3
         IN  IF ~stats.has THEN s4
             \* JSON.parse throws: the catch block starts over from the defaults
             ELSE IF ~JSON_parse(stats.text).ok THEN [s4 EXCEPT !.settings = defaults]
             ELSE IF JSON_parse(stats.text).isNull
                  THEN [s4 EXCEPT !.settings.stats = nullRef]
             ELSE [s4 EXCEPT !.heap[ParsedStats] = JSON_parse(stats.text).value,
                             !.settings.stats = ParsedStats]

\* _checkStatsReset that zeroes the counters without recording the day
_checkStatsReset_keepsDate(s, day, k) ==
    IF s.settings.stats = nullRef
    THEN [s EXCEPT !.threw = TRUE]
    ELSE LET ref == s.settings.stats IN
         IF s.heap[ref].lastResetDate # day
         THEN _saveSettings(
                [s EXCEPT !.heap[ref].sessionsToday = 0,
                          !.heap[ref].totalFocusTime = 0], k)
         ELSE s

\* reading a property of null throws a TypeError that nothing catches
_checkStatsReset(s, day, k) ==
    IF s.settings.stats = nullRef
    THEN [s EXCEPT !.threw = TRUE]
    ELSE LET ref == s.settings.stats IN
         IF s.heap[ref].lastResetDate # day
         THEN _saveSettings(
                [s EXCEPT !.heap[ref].sessionsToday = 0,
                          !.heap[ref].totalFocusTime = 0,
                          !.heap[ref].lastResetDate = day], k)
         ELSE s

\* the object `new SettingsManager()` starts from
NewStore(storage0) ==
    [settings |-> defaults,
     heap |-> [r \in {DefaultsStats, ParsedStats} |-> ZeroStats],
     storage |-> storage0, out |-> <<>>, ret |-> "undefined", threw |-> FALSE]

\* constructor -> _init: _loadSettings, then _checkStatsReset
_init(s, day, readThrows, k) ==
    _checkStatsReset(_loadSettings(s, readThrows), day, k)

\* setFocusDuration that saves before it assigns the new value
Settings_setFocusDuration_savesFirst(s, minutes, k) ==
    IF Lt(minutes, Num(1)) \/ Gt(minutes, Num(120))
    THEN [s EXCEPT !.ret = "false"]
    ELSE LET oldValue == s.settings.focusDuration
             s1 == _saveSettings(s, k)
             s2 == [s1 EXCEPT !.settings.focusDuration = minutes]
             s3 == _notifyChange(s2, "focusDuration", minutes, oldValue)
         IN  [s3 EXCEPT !.ret = "true"]

Settings_setFocusDuration(s, minutes, k) ==
    IF Lt(minutes, Num(1)) \/ Gt(minutes, Num(120))
    THEN [s EXCEPT !.ret = "false"]
    ELSE LET oldValue == s.settings.focusDuration
             s1 == [s EXCEPT !.settings.focusDuration = minutes]
             s2 == _saveSettings(s1, k)
             s3 == _notifyChange(s2, "focusDuration", minutes, oldValue)
         IN  [s3 EXCEPT !.ret = "true"]

Settings_setBreakDuration(s, minutes, k) ==
    IF Lt(minutes, Num(1)) \/ Gt(minutes, Num(30))
    THEN [s EXCEPT !.ret = "false"]
    ELSE LET oldValue == s.settings.breakDuration
             s1 == [s EXCEPT !.settings.breakDuration = minutes]
             s2 == _saveSettings(s1, k)
             s3 == _notifyChange(s2, "breakDuration", minutes, oldValue)
         IN  [s3 EXCEPT !.ret = "true"]

setSoundEnabled(s, enabled, k) ==
    LET oldValue == s.settings.soundEnabled
        s1 == [s EXCEPT !.settings.soundEnabled = enabled]
        s2 == _saveSettings(s1, k)
        s3 == _notifyChange(s2, "soundEnabled", enabled, oldValue)
    IN  [s3 EXCEPT !.ret = "true"]

setTheme(s, theme, k) ==
    IF theme # dark /\ theme # light
    THEN [s EXCEPT !.ret = "false"]
    ELSE LET oldValue == s.settings.theme
             s1 == [s EXCEPT !.settings.theme = theme]
             s2 == _saveSettings(s1, k)
             s3 == _notifyChange(s2, "theme", theme, oldValue)
         IN  [s3 EXCEPT !.ret = "true"]

incrementSessions(s, k) ==
    _saveSettings([s EXCEPT !.heap[s.settings.stats].sessionsToday = @ + 1], k)

addFocusTime(s, minutes, k) ==
    _saveSettings([s EXCEPT !.heap[s.settings.stats].totalFocusTime = @ + minutes], k)

\* getSetting(key)
getSetting(s, key) ==
    IF key = "stats"
    THEN [s EXCEPT !.ret = IF s.settings.stats = nullRef THEN nullRef
                           ELSE s.heap[s.settings.stats]]
    ELSE [s EXCEPT !.ret = s.settings[key]]

SettingsKeys == <<"focusDuration", "breakDuration", "soundEnabled", "theme", "stats">>

RECURSIVE NotifyAll(_, _, _)
\* Object.keys(this.settings).forEach: one notification for each key from the
\* i-th on
NotifyAll(s, oldSettings, i) ==
    IF i > Len(SettingsKeys) THEN s
    ELSE NotifyAll(_notifyChange(s, SettingsKeys[i], s.settings[SettingsKeys[i]],
                                 oldSettings[SettingsKeys[i]]),
                   oldSettings, i + 1)

resetToDefaults(s, k) ==
    LET oldSettings == s.settings
        s1 == [s EXCEPT !.settings = defaults]
        s2 == _saveSettings(s1, k)
        s3 == NotifyAll(s2, oldSettings, 1)
    IN  [s3 EXCEPT !.ret = "true"]

\* ------------------------------------------------------------- formatTime
\* a % b of JavaScript: the remainder has the sign of a
Remainder(a, b) == IF a >= 0 THEN a % b ELSE -((-a) % b)

\* text.padStart(2, '0')
padStart2(text) == IF Len(text) < 2 THEN <<"0">> \o text ELSE text

\* formatTime without the padding
formatTime_unpadded(seconds) ==
    LET minutes          == seconds \div 60
        remainingSeconds == Remainder(seconds, 60)
    IN  NumberToString(Num(minutes)) \o <<":">>
           \o NumberToString(Num(remainingSeconds))

\* FocusTimer.formatTime(seconds); Math.floor(seconds / 60) is seconds \div 60
formatTime(seconds) ==
    LET minutes          == seconds \div 60
        remainingSeconds == Remainder(seconds, 60)
    IN  padStart2(NumberToString(Num(minutes))) \o <<":">>
           \o padStart2(NumberToString(Num(remainingSeconds)))

\* ------------------------------------------------ the interface (UIManager)
\* The handlers of the interface, as functions of the controller they drive;
\* what they do to the page is left out.
_handleStart(o) ==
    IF o.state = TimerState.RUNNING THEN o
    ELSE IF o.state = TimerState.PAUSED THEN resume(o)
    ELSE start(o)

_handlePause(o) ==
    IF o.state # TimerState.RUNNING THEN o
    ELSE pause(o)

_handleReset(o) == reset(o, null)

\* the keys the model presses and the elements a key event may target
Keys == {" ", "r"}
TagNames == {"BODY", "INPUT"}

\* _handleKeyPress that starts on every Space
_handleKeyPress_alwaysStarts(o, key, tagName) ==
    IF tagName \in {"INPUT", "TEXTAREA"} THEN o
    ELSE IF key \in {" ", "Spacebar"}
         THEN _handleStart(o)
    ELSE IF key \in {"r", "R"} THEN _handleReset(o)
    ELSE o

_handleKeyPress(o, key, tagName) ==
    IF tagName \in {"INPUT", "TEXTAREA"} THEN o
    ELSE IF key \in {" ", "Spacebar"}
         THEN IF o.state = TimerState.RUNNING THEN _handlePause(o)
              ELSE _handleStart(o)
    ELSE IF key \in {"r", "R"} THEN _handleReset(o)
    ELSE o

\* -------------------------------------------------------- the application
\* FocusTimerApp holds one FocusTimer t and one SettingsManager s; out is what
\* both of them notified, in order.
MaxCompletions == 2

\* the JavaScript number x as the minutes the timer's setters take
Minutes(x) == [num |-> TimesTen(x), den |-> 10]

\* new FocusTimer(): no callback is registered yet
NewTimer ==
    [state |-> TimerState.STOPPED, mode |-> "focus",
     timeLeft |-> DEFAULT_FOCUS_TIME, totalTime |-> DEFAULT_FOCUS_TIME,
     focusDuration |-> DEFAULT_FOCUS_TIME, breakDuration |-> DEFAULT_BREAK_TIME,
     intervalId |-> nullId, active |-> {}, out |-> <<>>]

\* _initTimer: the callbacks of the new timer are still the empty ones
_initTimer(s) ==
    LET t1 == setFocusDuration(NewTimer, Minutes(s.settings.focusDuration))
        t2 == setBreakDuration(t1, Minutes(s.settings.breakDuration))
    IN  [t2 EXCEPT !.out = <<>>]

\* timer.onComplete as _setupEventHandlers registers it
timer_onComplete(t, s, completedMode, k) ==
    IF completedMode = "focus"
    THEN LET s1 == incrementSessions(s, k)
             focusMinutes == getSetting(s1, "focusDuration").ret
         IN  addFocusTime(s1, focusMinutes.v, k)
    ELSE s

RECURSIVE Notified(_, _, _, _)
\* the store after the callbacks the timer t called, from its i-th on
Notified(t, s, i, k) ==
    IF i > Len(t.out) THEN s
    ELSE IF t.out[i].type = "complete"
         THEN Notified(t, timer_onComplete(t, s, t.out[i].mode, k), i + 1, k)
         ELSE Notified(t, s, i + 1, k)

\* a handler of the timer run inside the application
InApp(t, s, k) ==
    LET s1 == Notified(t, s, 1, k)
    IN  [t |-> t, s |-> s1, out |-> t.out \o s1.out]

\* window.toggleMode
toggleMode(o) == setMode(o, IF o.mode = "focus" THEN "break" ELSE "focus")

\* _saveSettings of the interface (the settings panel's Save button)
ui_saveSettings(t, s, focusText, breakText, checked, k) ==
    LET focusDuration_ == parseInt(focusText)
        breakDuration_ == parseInt(breakText)
    IN  IF Lt(focusDuration_, Num(1)) \/ Gt(focusDuration_, Num(120))
        THEN [t |-> t, s |-> s, out |-> <<>>]
        ELSE IF Lt(breakDuration_, Num(1)) \/ Gt(breakDuration_, Num(30))
        THEN [t |-> t, s |-> s, out |-> <<>>]
        ELSE LET s1 == Settings_setFocusDuration(s, focusDuration_, k)
                 s2 == Settings_setBreakDuration(s1, breakDuration_, k)
                 s3 == setSoundEnabled(s2, checked, k)
                 t1 == setFocusDuration(t, Minutes(focusDuration_))
                 t2 == setBreakDuration(t1, Minutes(breakDuration_))
             IN  [t |-> t2, s |-> s3, out |-> s3.out \o t2.out]

\* ------------------------------------------------------------------- Init
\* the day the model starts on; the day before it is a day too
FirstDay == 2

\* a localStorage nothing was ever written to
EmptyStorage == [key \in StorageKeys |-> Absent]

\* the store variables hold the store s on the day `day`
StoreIs(s, day) ==
    /\ settings = s.settings
    /\ heap = s.heap
    /\ storage = s.storage
    /\ today = day
    /\ loaded = ~s.threw
    /\ result = s.ret

\* the state the constructor of FocusTimer leaves
TimerInit ==
    /\ state = TimerState.STOPPED
    /\ mode = "focus"
    /\ timeLeft = DEFAULT_FOCUS_TIME
    /\ totalTime = DEFAULT_FOCUS_TIME
    /\ focusDuration = DEFAULT_FOCUS_TIME
    /\ breakDuration = DEFAULT_BREAK_TIME
    /\ intervalId = nullId
    /\ activeIntervals = {}
    /\ events = <<>>
    /\ lastOp = [op |-> "constructor", arg |-> null, from |-> TimerState.STOPPED]

\* the controller next to a store constructed over an empty localStorage
Init ==
    /\ TimerInit
    /\ StoreIs(_init(NewStore(EmptyStorage), FirstDay, FALSE, 5), FirstDay)

\* ---------------------------------------------------------------- actions
\* a call that reaches setInterval needs a handle the pool can still supply
CanSetInterval == FreeHandles(Self) # {}
\* a call that reaches _tick is followed while timeLeft stays above -MaxOverrun
CanTick == timeLeft > -MaxOverrun

Start ==
    /\ state # TimerState.RUNNING => CanSetInterval /\ CanTick
    /\ Commit(start(Self), "start", null)

Pause ==
    /\ Commit(pause(Self), "pause", null)

Resume ==
    /\ state = TimerState.PAUSED => CanSetInterval /\ CanTick
    /\ Commit(resume(Self), "resume", null)

Reset(m) ==
    /\ Commit(reset(Self, m), "reset", m)

SetMode(m) ==
    /\ Commit(setMode(Self, m), "setMode", m)

SetFocusDuration(minutes) ==
    /\ Commit(setFocusDuration(Self, minutes), "setFocusDuration", minutes)

SetBreakDuration(minutes) ==
    /\ Commit(setBreakDuration(Self, minutes), "setBreakDuration", minutes)

Destroy ==
    /\ Commit(destroy(Self), "destroy", null)

\* One second of a live interval elapses and its callback runs this._tick().
IntervalFire(h) ==
    /\ h \in activeIntervals
    /\ CanTick
    /\ Commit(_tick(Self), "interval", h)

Next ==
    \/ Start
    \/ Pause
    \/ Resume
    \/ \E m \in ResetArgs : Reset(m)
    \/ \E m \in ModeArgs : SetMode(m)
    \/ \E minutes \in WholeMinutes : SetFocusDuration(minutes)
    \/ \E minutes \in WholeMinutes : SetBreakDuration(minutes)
    \/ Destroy
    \/ \E h \in HandlePool : IntervalFire(h)

Spec == Init /\ [][Next]_vars

\* The same controller, also handed the sub-minute duration that configures a
\* session of one second.
NextSub ==
    \/ Start
    \/ Pause
    \/ Resume
    \/ \E m \in ResetArgs : Reset(m)
    \/ \E m \in ModeArgs : SetMode(m)
    \/ \E minutes \in WholeMinutes \cup SubMinutes : SetFocusDuration(minutes)
    \/ \E minutes \in WholeMinutes \cup SubMinutes : SetBreakDuration(minutes)
    \/ Destroy
    \/ \E h \in HandlePool : IntervalFire(h)

SpecSub == Init /\ [][NextSub]_vars

\* The same controller, called with whatever its methods do not refuse: reset
\* with a value that is no mode, a duration of zero minutes.
NextAny ==
    \/ Start
    \/ Pause
    \/ Resume
    \/ \E m \in ResetArgs \cup BadResetArgs : Reset(m)
    \/ \E m \in ModeArgs : SetMode(m)
    \/ \E minutes \in WholeMinutes \cup ZeroMinutes : SetFocusDuration(minutes)
    \/ \E minutes \in WholeMinutes \cup ZeroMinutes : SetBreakDuration(minutes)
    \/ Destroy
    \/ \E h \in HandlePool : IntervalFire(h)

SpecAny == Init /\ [][NextAny]_vars

\* a key is pressed while the element tagName has the focus
KeyPress(key, tagName) ==
    /\ (state # TimerState.RUNNING /\ key = " " /\ tagName = "BODY")
          => CanSetInterval /\ CanTick
    /\ Commit(_handleKeyPress(Self, key, tagName), "keypress",
              [key |-> key, tagName |-> tagName])

\* The controller driven from the keyboard, while its mode and its durations
\* are set and the page is torn down.
NextKeys ==
    \/ \E key \in Keys, tagName \in TagNames : KeyPress(key, tagName)
    \/ \E m \in ModeArgs : SetMode(m)
    \/ \E minutes \in WholeMinutes : SetFocusDuration(minutes)
    \/ \E minutes \in WholeMinutes : SetBreakDuration(minutes)
    \/ Destroy
    \/ \E h \in HandlePool : IntervalFire(h)

SpecKeys == Init /\ [][NextKeys]_vars

\* the longest session the settings allow, in seconds
MaxSeconds == 120 * 60

\* updateTimerDisplay(timeLeft, ...): the clock shows formatTime(timeLeft)
UpdateTimerDisplay ==
    /\ result' = formatTime(timeLeft)
    /\ lastOp' = [op |-> "formatTime", arg |-> timeLeft, from |-> state]
    /\ events' = <<>>
    /\ UNCHANGED <<timerVars, settings, heap, storage, today, loaded>>

\* A paused focus session of the longest duration, at any second of its
\* countdown, next to a store constructed over an empty localStorage.
InitFormat ==
    /\ state = TimerState.PAUSED
    /\ mode = "focus"
    /\ timeLeft \in 0..MaxSeconds
    /\ totalTime = MaxSeconds
    /\ focusDuration = MaxSeconds
    /\ breakDuration = DEFAULT_BREAK_TIME
    /\ intervalId = nullId
    /\ activeIntervals = {}
    /\ events = <<>>
    /\ lastOp = [op |-> "pause", arg |-> null, from |-> TimerState.RUNNING]
    /\ StoreIs(_init(NewStore(EmptyStorage), FirstDay, FALSE, AllSaved), FirstDay)

NextFormat ==
    \/ UpdateTimerDisplay

SpecFormat == InitFormat /\ [][NextFormat]_vars

\* ------------------------------------------------------- the store: inputs
\* what localStorage may hold when the page loads
FocusTexts == {<<"a", "b", "c">>, <<"1", "2", "1">>}
BreakTexts == {<<"3", "1">>}
SoundTexts == {BooleanToString(FALSE)}
ThemeTexts == {light, <<"b", "l", "u", "e">>}
StatsTexts ==
    {<<"{">>, nullText,
     <<"{", "1", ",", "1", ",">> \o Digits(FirstDay - 1) \o <<"}">>,
     <<"{", "1", ",", "1", ",">> \o Digits(FirstDay) \o <<"}">>}

TextsOf(key) ==
    CASE key = STORAGE_KEYS.FOCUS_DURATION -> FocusTexts
      [] key = STORAGE_KEYS.BREAK_DURATION -> BreakTexts
      [] key = STORAGE_KEYS.SOUND_ENABLED -> SoundTexts
      [] key = STORAGE_KEYS.THEME -> ThemeTexts
      [] key = STORAGE_KEYS.STATS -> StatsTexts

InitialStorages ==
    {st \in [StorageKeys -> {Absent} \cup UNION {{Stored(t) : t \in TextsOf(key)} : key \in StorageKeys}] :
        \A key \in StorageKeys : st[key].has => st[key].text \in TextsOf(key)}

\* the arguments the setters are called with
FocusArgs == {Num(0), Num(1), Num(121), NaN}
BreakArgs == {Num(0), Num(30), Num(31), NaN}
ThemeArgs == {dark, light, <<"b", "l", "u", "e">>}
FocusTimeArgs == {1}

\* ------------------------------------------------------ the store: actions
StoreSelf ==
    [settings |-> settings, heap |-> heap, storage |-> storage,
     out |-> <<>>, ret |-> "undefined", threw |-> FALSE]

\* the stats object JSON.parse made is garbage once settings.stats has left it
Collect(s) ==
    [s.heap EXCEPT ![ParsedStats] =
        IF s.settings.stats = ParsedStats THEN @ ELSE ZeroStats]

CommitStore(s, op, arg) ==
    /\ settings' = s.settings
    /\ heap' = Collect(s)
    /\ storage' = s.storage
    /\ result' = s.ret
    /\ events' = s.out
    /\ lastOp' = [op |-> op, arg |-> arg, from |-> state]
    /\ UNCHANGED <<timerVars, today>>

SettingsSetFocusDuration(minutes, k) ==
    /\ loaded
    /\ CommitStore(Settings_setFocusDuration(StoreSelf, minutes, k),
                   "settings.setFocusDuration", minutes)
    /\ UNCHANGED loaded

SettingsSetBreakDuration(minutes, k) ==
    /\ loaded
    /\ CommitStore(Settings_setBreakDuration(StoreSelf, minutes, k),
                   "settings.setBreakDuration", minutes)
    /\ UNCHANGED loaded

SetSoundEnabled(enabled, k) ==
    /\ loaded
    /\ CommitStore(setSoundEnabled(StoreSelf, enabled, k), "setSoundEnabled", enabled)
    /\ UNCHANGED loaded

SetTheme(theme, k) ==
    /\ loaded
    /\ CommitStore(setTheme(StoreSelf, theme, k), "setTheme", theme)
    /\ UNCHANGED loaded

IncrementSessions(k) ==
    /\ loaded
    /\ heap[settings.stats].sessionsToday < MaxSessions
    /\ CommitStore(incrementSessions(StoreSelf, k), "incrementSessions", null)
    /\ UNCHANGED loaded

AddFocusTime(minutes, k) ==
    /\ loaded
    /\ heap[settings.stats].totalFocusTime + minutes <= MaxFocusTime
    /\ CommitStore(addFocusTime(StoreSelf, minutes, k), "addFocusTime", minutes)
    /\ UNCHANGED loaded

ResetToDefaults(k) ==
    /\ loaded
    /\ CommitStore(resetToDefaults(StoreSelf, k), "resetToDefaults", null)
    /\ UNCHANGED loaded

\* getSetting('stats')
GetStats ==
    /\ loaded
    /\ CommitStore(getSetting(StoreSelf, "stats"), "getSetting", "stats")
    /\ UNCHANGED loaded

\* The page is loaded again: a new SettingsManager over the same localStorage.
Load(readThrows, k) ==
    /\ CommitStore(_init(NewStore(storage), today, readThrows, k), "load", readThrows)
    /\ loaded' = ~_init(NewStore(storage), today, readThrows, k).threw

\* midnight
DayPasses ==
    /\ today < MaxDay
    /\ today' = today + 1
    /\ events' = <<>>
    /\ lastOp' = [op |-> "midnight", arg |-> null, from |-> state]
    /\ UNCHANGED <<timerVars, settings, heap, storage, loaded, result>>

\* The store over whatever localStorage holds when the page loads; no write
\* to localStorage fails.
InitStore ==
    /\ TimerInit
    /\ \E st \in InitialStorages, readThrows \in BOOLEAN :
          StoreIs(_init(NewStore(st), FirstDay, readThrows, AllSaved), FirstDay)

NextStore ==
    \/ \E minutes \in FocusArgs : SettingsSetFocusDuration(minutes, AllSaved)
    \/ \E minutes \in BreakArgs : SettingsSetBreakDuration(minutes, AllSaved)
    \/ \E enabled \in BOOLEAN : SetSoundEnabled(enabled, AllSaved)
    \/ \E theme \in ThemeArgs : SetTheme(theme, AllSaved)
    \/ IncrementSessions(AllSaved)
    \/ \E minutes \in FocusTimeArgs : AddFocusTime(minutes, AllSaved)
    \/ ResetToDefaults(AllSaved)
    \/ GetStats
    \/ \E readThrows \in BOOLEAN : Load(readThrows, AllSaved)
    \/ DayPasses

SpecStore == InitStore /\ [][NextStore]_vars

\* a duration that is no whole number of minutes
FractionArgs == {Decimal(1, 5)}

\* The store on one day: setters and statistics mutators whose writes succeed,
\* and the page loaded again from a localStorage that can be read.
NextRound ==
    \/ \E minutes \in FocusArgs \cup FractionArgs :
          SettingsSetFocusDuration(minutes, AllSaved)
    \/ \E minutes \in BreakArgs : SettingsSetBreakDuration(minutes, AllSaved)
    \/ \E enabled \in BOOLEAN : SetSoundEnabled(enabled, AllSaved)
    \/ \E theme \in ThemeArgs : SetTheme(theme, AllSaved)
    \/ IncrementSessions(AllSaved)
    \/ \E minutes \in FocusTimeArgs : AddFocusTime(minutes, AllSaved)
    \/ Load(FALSE, AllSaved)

SpecRound == InitStore /\ [][NextRound]_vars

\* The store over an empty localStorage that can be read and whose quota may
\* run out at any write: every setter called with a value it accepts.
NextQuota ==
    \/ \E k \in SaveOutcomes : SettingsSetFocusDuration(Num(1), k)
    \/ \E k \in SaveOutcomes : SettingsSetBreakDuration(Num(30), k)
    \/ \E enabled \in BOOLEAN, k \in SaveOutcomes : SetSoundEnabled(enabled, k)
    \/ \E k \in SaveOutcomes : SetTheme(light, k)
    \/ \E k \in SaveOutcomes : Load(FALSE, k)

SpecQuota == Init /\ [][NextQuota]_vars

\* The same store through the days: the statistics are counted and read, the
\* page is loaded again, midnight passes.
NextDays ==
    \/ \E k \in SaveOutcomes : IncrementSessions(k)
    \/ \E minutes \in FocusTimeArgs, k \in SaveOutcomes : AddFocusTime(minutes, k)
    \/ GetStats
    \/ \E readThrows \in BOOLEAN, k \in SaveOutcomes : Load(readThrows, k)
    \/ DayPasses

SpecDays == Init /\ [][NextDays]_vars

\* The store constructed over an empty localStorage whose quota may already
\* run out while the constructor saves: nothing may have been persisted when
\* the page is loaded again.
InitFresh ==
    /\ TimerInit
    /\ \E k \in SaveOutcomes :
          StoreIs(_init(NewStore(EmptyStorage), FirstDay, FALSE, k), FirstDay)

SpecFresh == InitFresh /\ [][NextQuota]_vars

\* ------------------------------------------------ the application: actions
\* the texts the settings panel's two number fields are saved with
PanelFocusTexts == {<<"0">>, <<"1">>, <<"2">>}
PanelBreakTexts == {<<"1">>, <<"3", "1">>}

\* the counters of the store s
Counters(s) == s.heap[s.settings.stats]

CommitApp(a, op, arg) ==
    /\ Counters(a.s).sessionsToday <= MaxCompletions
    /\ state' = a.t.state
    /\ mode' = a.t.mode
    /\ timeLeft' = a.t.timeLeft
    /\ totalTime' = a.t.totalTime
    /\ focusDuration' = a.t.focusDuration
    /\ breakDuration' = a.t.breakDuration
    /\ intervalId' = a.t.intervalId
    /\ activeIntervals' = a.t.active
    /\ settings' = a.s.settings
    /\ heap' = Collect(a.s)
    /\ storage' = a.s.storage
    /\ result' = a.s.ret
    /\ events' = a.out
    /\ lastOp' = [op |-> op, arg |-> arg, from |-> state]
    /\ UNCHANGED <<today, loaded>>

\* the Start button: start(), or resume() of a paused timer
ClickStart ==
    /\ state # TimerState.RUNNING => CanSetInterval /\ CanTick
    /\ CommitApp(InApp(_handleStart(Self), StoreSelf, AllSaved),
                 IF state = TimerState.PAUSED THEN "resume" ELSE "start", null)

\* the Pause button
ClickPause ==
    CommitApp(InApp(_handlePause(Self), StoreSelf, AllSaved), "pause", null)

\* the Reset button
ClickReset ==
    CommitApp(InApp(_handleReset(Self), StoreSelf, AllSaved), "reset", null)

ToggleMode ==
    CommitApp(InApp(toggleMode(Self), StoreSelf, AllSaved), "setMode",
              IF mode = "focus" THEN "break" ELSE "focus")

\* the interval h of the timer fires
AppIntervalFire(h) ==
    /\ h \in activeIntervals
    /\ CanTick
    /\ CommitApp(InApp(_tick(Self), StoreSelf, AllSaved), "interval", h)

\* the Save button of the settings panel
SaveSettings(focusText, breakText, checked) ==
    CommitApp(ui_saveSettings(Self, StoreSelf, focusText, breakText, checked,
                              AllSaved),
              "ui._saveSettings",
              [focus |-> focusText, break |-> breakText, sound |-> checked])

\* the localStorage of a user who chose sessions of one minute
OneMinuteStorage ==
    [EmptyStorage EXCEPT
        ![STORAGE_KEYS.FOCUS_DURATION] = Stored(<<"1">>),
        ![STORAGE_KEYS.BREAK_DURATION] = Stored(<<"1">>)]

\* the timer variables hold the timer t
TimerIs(t) ==
    /\ state = t.state
    /\ mode = t.mode
    /\ timeLeft = t.timeLeft
    /\ totalTime = t.totalTime
    /\ focusDuration = t.focusDuration
    /\ breakDuration = t.breakDuration
    /\ intervalId = t.intervalId
    /\ activeIntervals = t.active
    /\ events = t.out
    /\ lastOp = [op |-> "constructor", arg |-> null, from |-> TimerState.STOPPED]

\* FocusTimerApp.init(): _initSettings, then _initTimer
AppInit(storage0) ==
    LET s == _init(NewStore(storage0), FirstDay, FALSE, AllSaved)
    IN  StoreIs(s, FirstDay) /\ TimerIs(_initTimer(s))

InitApp == AppInit(OneMinuteStorage)

\* The application: the buttons, the mode toggle, the settings panel and the
\* interval, with the completion callback crediting the store.
NextApp ==
    \/ ClickStart
    \/ ClickPause
    \/ ClickReset
    \/ ToggleMode
    \/ \E h \in HandlePool : AppIntervalFire(h)
    \/ \E focusText \in PanelFocusTexts, breakText \in PanelBreakTexts :
          SaveSettings(focusText, breakText, TRUE)

SpecApp == InitApp /\ [][NextApp]_vars

\* the localStorage contents the application of the panel model starts over
PanelStorages ==
    {EmptyStorage, OneMinuteStorage,
     [EmptyStorage EXCEPT
         ![STORAGE_KEYS.FOCUS_DURATION] = Stored(<<"1", "2", "1">>)]}

InitPanel == \E storage0 \in PanelStorages : AppInit(storage0)

\* The settings of the application: the panel's Save button with either state
\* of the sound checkbox, resetToDefaults() and the mode toggle, on a timer
\* that is not started.
NextPanel ==
    \/ \E focusText \in PanelFocusTexts, breakText \in PanelBreakTexts,
          checked \in BOOLEAN :
          SaveSettings(focusText, breakText, checked)
    \/ ResetToDefaults(AllSaved)
    \/ ToggleMode

SpecPanel == InitPanel /\ [][NextPanel]_vars

\* ------------------------------------------------------ the timer, fairly
\* one minute, as the argument of the timer's setters
OneMinute == [num |-> 1, den |-> 1]

\* the controller configured with sessions of one minute
InitLive ==
    /\ TimerIs(setBreakDuration(setFocusDuration(NewTimer, OneMinute), OneMinute))
    /\ StoreIs(_init(NewStore(EmptyStorage), FirstDay, FALSE, AllSaved), FirstDay)

NextLive ==
    \/ Start
    \/ Pause
    \/ Resume
    \/ Reset(null)
    \/ \E m \in {"focus", "break"} : SetMode(m)
    \/ SetFocusDuration(OneMinute)
    \/ Destroy
    \/ \E h \in HandlePool : IntervalFire(h)

\* setInterval calls its callback again and again until clearInterval: an
\* interval that stays armed fires
SpecLive ==
    /\ InitLive
    /\ [][NextLive]_vars
    /\ WF_vars(\E h \in HandlePool : IntervalFire(h))

\* ------------------------------------------------- vocabulary of the claims
\* the positions in events of the notifications of one type
EventsOfType(evs, type) == {i \in DOMAIN evs : evs[i].type = type}

\* the tick notification carrying (remaining, total, mode)
TickOf(remaining, total, m) ==
    [type |-> "tick", timeLeft |-> remaining, totalTime |-> total, mode |-> m]

\* no live interval, and no handle held
NoTicker(active, id) == active = {} /\ id = nullId

\* the step is a call of op
Calls(op) == lastOp'.op = op

\* the step runs _tick: a firing of the interval, or a start or resume that
\* passes its guard
TickRuns ==
    \/ Calls("interval")
    \/ Calls("start") /\ state # TimerState.RUNNING
    \/ Calls("resume") /\ state = TimerState.PAUSED

\* the step leaves the controller and its ticker as they were, and notifies nobody
NothingHappens ==
    /\ UNCHANGED <<state, mode, timeLeft, totalTime, focusDuration,
                   breakDuration, intervalId, activeIntervals>>
    /\ events' = <<>>

\* --------------------------------------------------------------------- C1
\* C1: in every reachable state timeLeft is an integer >= 0, and no tick
\* notification carries a negative remaining value.
C1_RemainingNeverNegative ==
    /\ timeLeft \in Int
    /\ timeLeft >= 0
    /\ \A i \in EventsOfType(events, "tick") : events[i].timeLeft >= 0

\* --------------------------------------------------------------------- C2
\* C2: at most one interval owned by the controller is live at any time; no
\* start creates a second one while an earlier one is still live.
C2_AtMostOneTickHandle == Cardinality(activeIntervals) <= 1

\* a resume has re-armed the ticker after an earlier interval was cleared
C2_Witness ==
    /\ lastOp.op = "resume"
    /\ lastOp.from = TimerState.PAUSED
    /\ state = TimerState.RUNNING
    /\ activeIntervals = {intervalId}

\* --------------------------------------------------------------------- C3
\* C3: status = running implies a live interval that intervalId names, after
\* every operation, destroy included.
C3_RunningImpliesTicker ==
    state = TimerState.RUNNING =>
        intervalId # nullId /\ intervalId \in activeIntervals

\* --------------------------------------------------------------------- C4
\* C4: whenever status is not running no interval is live and no handle is
\* held, the same holds right after destroy, and from a status that is not
\* running no interval fires: short of start/resume, timeLeft stays or is
\* reloaded to the total, never ticked down.
C4_NoTickUnlessRunning ==
    /\ [](state # TimerState.RUNNING => NoTicker(activeIntervals, intervalId))
    /\ [](lastOp.op = "destroy" => NoTicker(activeIntervals, intervalId))
    /\ [][state # TimerState.RUNNING =>
            /\ ~Calls("interval")
            /\ ~(Calls("start") \/ Calls("resume")) =>
                   timeLeft' = timeLeft \/ timeLeft' = totalTime']_vars

\* a running timer has been paused and its interval is gone
C4_Witness ==
    /\ lastOp.op = "pause"
    /\ lastOp.from = TimerState.RUNNING
    /\ state = TimerState.PAUSED
    /\ NoTicker(activeIntervals, intervalId)

\* --------------------------------------------------------------------- C5
\* start() is called on a stopped session of one second
C5_StartsOneSecondSession ==
    /\ Calls("start")
    /\ state = TimerState.STOPPED
    /\ timeLeft = 1
    /\ totalTime = 1

\* C5 as claimed: start() on a session with timeLeft = totalTime = 1 emits one
\* tick notification and no completion; the session is left running for the
\* interval to complete it one second later.
C5_CompletesAtSecondTick ==
    [][C5_StartsOneSecondSession =>
          /\ Cardinality(EventsOfType(events', "tick")) = 1
          /\ EventsOfType(events', "complete") = {}
          /\ state' = TimerState.RUNNING]_vars

\* C5 as amended: start() on a session with timeLeft = totalTime = 1 completes
\* it inside the call: one tick notification with remaining 0, then the
\* completion notification, status stopped and no interval left to fire.
C5_CompletesInsideStart ==
    [][C5_StartsOneSecondSession =>
          /\ events' = <<TickOf(0, 1, mode), CompleteEvent(mode)>>
          /\ timeLeft' = 0
          /\ state' = TimerState.STOPPED
          /\ NoTicker(activeIntervals', intervalId')]_vars

\* a one-second session has been started and is over
C5_Witness ==
    /\ lastOp.op = "start"
    /\ lastOp.from = TimerState.STOPPED
    /\ totalTime = 1
    /\ timeLeft = 0
    /\ Len(events) = 2
    /\ state = TimerState.STOPPED

\* --------------------------------------------------------------------- C6
\* C6: pause() leaves timeLeft as it was, and the resume() that follows
\* returns with the timeLeft the pause was called at: a pause/resume pair
\* costs no tick.
C6_PauseResumeKeepsRemaining ==
    [][/\ (Calls("pause") /\ state = TimerState.RUNNING) =>
              timeLeft' = timeLeft
       /\ (Calls("resume") /\ state = TimerState.PAUSED) =>
              timeLeft' = timeLeft]_vars

\* --------------------------------------------------------------------- C7
\* C7: a tick takes exactly 1 from timeLeft and first emits the tick
\* notification (remaining, total, mode), once; the tick that takes timeLeft
\* from 1 to 0 emits that notification with remaining 0, then leaves no
\* interval, status stopped and exactly one completion notification, carrying
\* the mode the tick started in.
C7_TickThenComplete ==
    [][TickRuns =>
          /\ timeLeft' = timeLeft - 1
          /\ events' # <<>>
          /\ events'[1] = TickOf(timeLeft - 1, totalTime, mode)
          /\ EventsOfType(events', "tick") = {1}
          /\ timeLeft = 1 =>
                /\ events' = <<TickOf(0, totalTime, mode), CompleteEvent(mode)>>
                /\ state' = TimerState.STOPPED
                /\ NoTicker(activeIntervals', intervalId')]_vars

\* the interval has ticked a session from 1 to 0 and completed it
C7_Witness ==
    /\ lastOp.op = "interval"
    /\ timeLeft = 0
    /\ state = TimerState.STOPPED
    /\ Len(events) = 2
    /\ events[2] = CompleteEvent(mode)

\* --------------------------------------------------------------------- C8
\* the step is a call that its guard turns away
GuardViolation ==
    \/ Calls("start") /\ state = TimerState.RUNNING
    \/ Calls("pause") /\ state # TimerState.RUNNING
    \/ Calls("resume") /\ state # TimerState.PAUSED
    \/ Calls("setMode") /\ lastOp'.arg \notin {"focus", "break"}

\* C8: start() while running, pause() while not running, resume() while not
\* paused and setMode of a value that is no mode leave status, mode, timeLeft,
\* totalTime, both durations and the ticker unchanged and notify nobody.
C8_GuardViolationsIgnored == [][GuardViolation => NothingHappens]_vars

\* start() has been called on a running timer
C8_Witness ==
    /\ lastOp.op = "start"
    /\ lastOp.from = TimerState.RUNNING
    /\ state = TimerState.RUNNING
    /\ events = <<>>

\* --------------------------------------------------------------------- C9
\* C9: start() from stopped and resume() from paused take 1 from timeLeft and
\* emit one tick notification inside the call; they return with status
\* running and one live interval, which intervalId names, unless that tick
\* completed the session: then status is stopped and no interval is left.
C9_StartTicksAtOnce ==
    [][(\/ Calls("start") /\ state = TimerState.STOPPED
        \/ Calls("resume") /\ state = TimerState.PAUSED) =>
          /\ timeLeft' = timeLeft - 1
          /\ Cardinality(EventsOfType(events', "tick")) = 1
          /\ IF EventsOfType(events', "complete") # {}
             THEN /\ state' = TimerState.STOPPED
                  /\ NoTicker(activeIntervals', intervalId')
             ELSE /\ state' = TimerState.RUNNING
                  /\ intervalId' # nullId
                  /\ activeIntervals' = {intervalId'}]_vars

\* a stopped timer has been started and is running after its first tick
C9_Witness ==
    /\ lastOp.op = "start"
    /\ lastOp.from = TimerState.STOPPED
    /\ state = TimerState.RUNNING
    /\ activeIntervals = {intervalId}
    /\ events = <<TickOf(timeLeft, totalTime, mode)>>

\* -------------------------------------------------------------------- C10
\* the duration configured for mode m
DurationOf(m) == IF m = "focus" THEN focusDuration ELSE breakDuration

\* C10: setMode(m) with m a mode sets mode = m and timeLeft = totalTime = the
\* duration configured for m, and emits the mode-change notification
\* (m, previous mode) and then one tick notification, nothing else; called
\* while running it leaves status paused and no interval, called while
\* stopped or paused it leaves status as it was.
C10_SetModePauses ==
    [][(Calls("setMode") /\ lastOp'.arg \in {"focus", "break"}) =>
          LET m == lastOp'.arg IN
          /\ mode' = m
          /\ timeLeft' = DurationOf(m)
          /\ totalTime' = DurationOf(m)
          /\ events' = <<ModeChangeEvent(m, mode),
                         TickOf(DurationOf(m), DurationOf(m), m)>>
          /\ IF state = TimerState.RUNNING
             THEN /\ state' = TimerState.PAUSED
                  /\ NoTicker(activeIntervals', intervalId')
             ELSE state' = state]_vars

\* the mode of a running timer has been switched
C10_Witness ==
    /\ lastOp.op = "setMode"
    /\ lastOp.from = TimerState.RUNNING
    /\ state = TimerState.PAUSED
    /\ mode = "break"
    /\ timeLeft = breakDuration
    /\ Len(events) = 2

\* -------------------------------------------------------------------- C11
\* C11: reset(mode?) from any status leaves no interval, status stopped, the
\* given mode if one is given, timeLeft = totalTime = the duration configured
\* for the resulting mode, and emits one tick notification with those values,
\* nothing else; a reset() that follows setFocusDuration(minutes) in focus
\* mode leaves timeLeft = totalTime = minutes * 60.
C11_ResetReloads ==
    [][Calls("reset") =>
          LET m == IF lastOp'.arg # null THEN lastOp'.arg ELSE mode IN
          /\ NoTicker(activeIntervals', intervalId')
          /\ state' = TimerState.STOPPED
          /\ mode' = m
          /\ timeLeft' = DurationOf(m)
          /\ totalTime' = DurationOf(m)
          /\ events' = <<TickOf(DurationOf(m), DurationOf(m), m)>>
          /\ (lastOp.op = "setFocusDuration" /\ lastOp'.arg = null
                /\ mode = "focus") =>
                /\ mode' = "focus"
                /\ timeLeft' = lastOp.arg.num * 60
                /\ totalTime' = lastOp.arg.num * 60]_vars

\* reset() has stopped a running timer right after its focus duration was set
\* to the largest number of minutes
C11_Witness ==
    /\ lastOp.op = "reset"
    /\ lastOp.from = TimerState.RUNNING
    /\ lastOp.arg = null
    /\ mode = "focus"
    /\ state = TimerState.STOPPED
    /\ focusDuration = MaxMinutes * 60
    /\ timeLeft = MaxMinutes * 60
    /\ totalTime = MaxMinutes * 60

\* -------------------------------------------------------------------- C12
\* the step is setFocusDuration or setBreakDuration; which names the mode
SetsDurationOf(which) ==
    \/ which = "focus" /\ Calls("setFocusDuration")
    \/ which = "break" /\ Calls("setBreakDuration")

\* C12: setFocusDuration(m) / setBreakDuration(m) store m * 60 as the duration
\* of their mode and leave the other duration; called while stopped in that
\* mode they set timeLeft = totalTime = m * 60 and emit one tick
\* notification; in every other case timeLeft and totalTime stay and nothing
\* is emitted; status, mode and the ticker stay in every case.
C12_SetDuration ==
    [][\A which \in {"focus", "break"} : SetsDurationOf(which) =>
          LET seconds == lastOp'.arg.num * 60 IN
          /\ focusDuration' = IF which = "focus" THEN seconds ELSE focusDuration
          /\ breakDuration' = IF which = "break" THEN seconds ELSE breakDuration
          /\ UNCHANGED <<state, mode, intervalId, activeIntervals>>
          /\ IF state = TimerState.STOPPED /\ mode = which
             THEN /\ timeLeft' = seconds
                  /\ totalTime' = seconds
                  /\ events' = <<TickOf(seconds, seconds, which)>>
             ELSE /\ UNCHANGED <<timeLeft, totalTime>>
                  /\ events' = <<>>]_vars

\* the break duration has been set while the timer was paused in break mode:
\* the session keeps the times it had
C12_Witness ==
    /\ lastOp.op = "setBreakDuration"
    /\ lastOp.from = TimerState.PAUSED
    /\ mode = "break"
    /\ breakDuration # totalTime
    /\ events = <<>>

\* -------------------------------------------------------------------- C13
\* C13: in every reachable state timeLeft <= totalTime.
C13_RemainingAtMostTotal == timeLeft <= totalTime

\* a duration has been set on a stopped timer whose session had been ticked
\* down before
C13_Witness ==
    /\ lastOp.op = "setFocusDuration"
    /\ lastOp.from = TimerState.STOPPED
    /\ mode = "focus"
    /\ timeLeft = totalTime
    /\ timeLeft = MaxMinutes * 60
    /\ breakDuration < timeLeft

\* -------------------------------------------------------------------- C14
\* C14: in every reachable state mode is focus or break, whatever reset and
\* setMode are called with.
C14_ModeIsFocusOrBreak == mode \in {"focus", "break"}

\* -------------------------------------------------------------------- C15
\* C15: in every reachable state totalTime is an integer > 0, whatever the
\* operations are called with.
C15_TotalIsPositive == totalTime \in Int /\ totalTime > 0

\* -------------------------------------------------------------------- C16
\* x is a whole number of minutes within [lo, hi]
InRange(x, lo, hi) == ~x.nan /\ lo * 10 <= TimesTen(x) /\ TimesTen(x) <= hi * 10

\* a setter of the store is called with a value outside what it accepts
InvalidSetterCall ==
    \/ Calls("settings.setFocusDuration") /\ ~InRange(lastOp'.arg, 1, 120)
    \/ Calls("settings.setBreakDuration") /\ ~InRange(lastOp'.arg, 1, 30)
    \/ Calls("setTheme") /\ lastOp'.arg \notin {dark, light}

\* C16: a store setter called with a value outside its range (minutes below 1,
\* above the maximum or not a number; a theme that is neither dark nor light)
\* returns false, leaves the settings and the storage as they were and emits
\* no change notification.
C16_InvalidInputRejected ==
    [][InvalidSetterCall =>
          /\ result' = "false"
          /\ settings' = settings
          /\ heap' = heap
          /\ storage' = storage
          /\ events' = <<>>]_vars

\* -------------------------------------------------------------------- C17
\* the setters of the store and the setting each one assigns
Setters ==
    {<<"settings.setFocusDuration", "focusDuration">>,
     <<"settings.setBreakDuration", "breakDuration">>,
     <<"setSoundEnabled", "soundEnabled">>,
     <<"setTheme", "theme">>}

\* the setter of `key` has been called and has returned true: the setting
\* holds the argument, and the one notification emitted carries the key, the
\* argument and the value held before the call
SetterSucceeds(op, key) ==
    /\ Calls(op)
    /\ result' = "true"
    /\ settings'[key] = lastOp'.arg
    /\ events' = <<ChangeEvent(key, lastOp'.arg, settings[key])>>

\* the texts of the settings as they are after the step
WritesAfter == SaveWrites([settings |-> settings', heap |-> heap'])

\* the step has written the first k of the texts ws and no other key
WrittenUpTo(ws, k) ==
    \A i \in 1..Len(ws) :
        storage'[ws[i][1]] = IF i <= k THEN Stored(ws[i][2]) ELSE storage[ws[i][1]]

\* C17 as claimed: a setter that returns true has assigned the in-memory
\* value, has written all five storage keys from the in-memory settings, and
\* has emitted exactly one change notification (key, newValue, oldValue).
C17_SetterWritesAllKeys ==
    [][\A su \in Setters :
          (Calls(su[1]) /\ result' = "true") =>
             /\ SetterSucceeds(su[1], su[2])
             /\ WrittenUpTo(WritesAfter, Len(WritesAfter))]_vars

\* C17 as amended: a setter that returns true has assigned the in-memory value
\* and emitted exactly one change notification (key, newValue, oldValue); it
\* has written the storage keys from the in-memory settings in their order up
\* to the first write that throws, all five when no write throws.
C17_SetterWritesUntilThrow ==
    [][\A su \in Setters :
          (Calls(su[1]) /\ result' = "true") =>
             /\ SetterSucceeds(su[1], su[2])
             /\ LET ws == WritesAfter IN
                \E k \in SaveOutcomes : WrittenUpTo(ws, k)]_vars

\* setTheme('light') has returned true although the write of the theme key
\* threw: the storage still holds the theme written before
C17_Witness ==
    /\ lastOp.op = "setTheme"
    /\ result = "true"
    /\ settings.theme = light
    /\ events = <<ChangeEvent("theme", light, dark)>>
    /\ storage[STORAGE_KEYS.FOCUS_DURATION] = Stored(NumberToString(settings.focusDuration))
    /\ storage[STORAGE_KEYS.THEME] = Stored(dark)

\* -------------------------------------------------------------------- C18
\* the text stored under a duration key is missing or is no whole number
\* within [lo, hi]
BadDuration(item, lo, hi) == ~item.has \/ ~InRange(parseInt(item.text), lo, hi)

\* the text stored under the theme key is missing or names no theme
BadTheme(item) == ~item.has \/ item.text \notin {dark, light}

\* the text stored under the stats key is missing, is rejected by JSON.parse
\* or parses to null
BadStats(item) ==
    ~item.has \/ ~JSON_parse(item.text).ok \/ JSON_parse(item.text).isNull

\* every field of the settings se (over the heap hp) whose text in the
\* storage st is missing or corrupt holds its default
FallsBack(st, se, hp) ==
    /\ BadDuration(st[STORAGE_KEYS.FOCUS_DURATION], 1, 120) =>
          se.focusDuration = Num(25)
    /\ BadDuration(st[STORAGE_KEYS.BREAK_DURATION], 1, 30) =>
          se.breakDuration = Num(5)
    /\ ~st[STORAGE_KEYS.SOUND_ENABLED].has => se.soundEnabled = TRUE
    /\ BadTheme(st[STORAGE_KEYS.THEME]) => se.theme = dark
    /\ BadStats(st[STORAGE_KEYS.STATS]) =>
          /\ se.stats # nullRef
          /\ hp[se.stats].sessionsToday = 0
          /\ hp[se.stats].totalFocusTime = 0

\* C18: whatever the storage holds, and whether or not reading it throws,
\* constructing the store over it completes without throwing, and every field
\* whose stored value is missing or corrupt holds its default.
C18_LoadFallsBackToDefaults ==
    [][Calls("load") => loaded' /\ FallsBack(storage, settings', heap')]_vars

\* -------------------------------------------------------------------- C19
\* C19: while the store stays loaded, whatever store operations and midnights
\* came before, the stats a read returns carry today's date, and a counter is
\* incremented only in stats that carry today's date.
C19_StatsReadAreOfToday ==
    [][/\ Calls("getSetting") => result'.lastResetDate = today'
       /\ (Calls("incrementSessions") \/ Calls("addFocusTime")) =>
             heap[settings.stats].lastResetDate = today]_vars

\* -------------------------------------------------------------------- C20
\* the stats object the text under the stats key stands for
StoredStats(st) == JSON_parse(st[STORAGE_KEYS.STATS].text).value

\* the store is constructed over a storage that can be read and holds a stats
\* object whose lastResetDate is not today
LoadsStaleStats ==
    /\ Calls("load")
    /\ ~lastOp'.arg
    /\ ~BadStats(storage[STORAGE_KEYS.STATS])
    /\ StoredStats(storage).lastResetDate # today

\* the store is constructed over a storage that can be read and holds a stats
\* object of today
LoadsStatsOfToday ==
    /\ Calls("load")
    /\ ~lastOp'.arg
    /\ ~BadStats(storage[STORAGE_KEYS.STATS])
    /\ StoredStats(storage).lastResetDate = today

\* the stats in memory after the step are zeroed and carry today's date
RolledOver ==
    /\ loaded'
    /\ heap'[settings'.stats] =
          [sessionsToday |-> 0, totalFocusTime |-> 0, lastResetDate |-> today']

\* the load of stats of today keeps them and writes nothing
NothingRolledOver ==
    /\ loaded'
    /\ heap'[settings'.stats] = StoredStats(storage)
    /\ storage' = storage

\* a step that is no load does not bring lastResetDate to today
OnlyLoadRollsOver ==
    (loaded /\ ~Calls("load") /\ heap'[settings'.stats].lastResetDate = today')
        => heap[settings.stats].lastResetDate = today'

\* C20 as claimed: a load over stats of another day zeroes both counters, sets
\* lastResetDate to today and persists the stats; a load over stats of today
\* changes nothing; no other operation rolls the stats over.
C20_RolloverPersisted ==
    [][/\ LoadsStaleStats =>
             /\ RolledOver
             /\ ~BadStats(storage'[STORAGE_KEYS.STATS])
             /\ StoredStats(storage') = heap'[settings'.stats]
       /\ LoadsStatsOfToday => NothingRolledOver
       /\ OnlyLoadRollsOver]_vars

\* C20 as amended: a load over stats of another day zeroes both counters and
\* sets lastResetDate to today in memory, and writes the five storage keys in
\* their order up to the first write that throws, so that the stats are
\* persisted when no write throws; a load over stats of today changes
\* nothing; no other operation rolls the stats over.
C20_RolloverSavedUntilThrow ==
    [][/\ LoadsStaleStats =>
             /\ RolledOver
             /\ LET ws == WritesAfter IN
                \E k \in SaveOutcomes : WrittenUpTo(ws, k)
       /\ LoadsStatsOfToday => NothingRolledOver
       /\ OnlyLoadRollsOver]_vars

\* a load has rolled the stats over in memory while the write of the stats
\* key threw: the storage still holds the stats of the day before
C20_Witness ==
    /\ lastOp.op = "load"
    /\ ~lastOp.arg
    /\ loaded
    /\ heap[settings.stats] =
          [sessionsToday |-> 0, totalFocusTime |-> 0, lastResetDate |-> today]
    /\ ~BadStats(storage[STORAGE_KEYS.STATS])
    /\ StoredStats(storage).lastResetDate = today - 1
    /\ StoredStats(storage).sessionsToday = 1

\* -------------------------------------------------------------------- C21
\* the settings se (over the heap hp) are the documented defaults, with both
\* counters at zero
DefaultsLoaded(se, hp) ==
    /\ se.focusDuration = Num(25)
    /\ se.breakDuration = Num(5)
    /\ se.soundEnabled = TRUE
    /\ se.theme = dark
    /\ se.stats # nullRef
    /\ hp[se.stats].sessionsToday = 0
    /\ hp[se.stats].totalFocusTime = 0

\* C21: a store constructed while none of the five keys is persisted holds
\* focusDuration 25, breakDuration 5, soundEnabled true, theme dark and both
\* counters at zero: the first construction, and every later load that finds
\* the storage still empty.
C21_FreshStoreLoadsDefaults ==
    /\ lastOp.op = "constructor" => (loaded /\ DefaultsLoaded(settings, heap))
    /\ [][(Calls("load") /\ storage = EmptyStorage) =>
             (loaded' /\ DefaultsLoaded(settings', heap'))]_vars

\* the page has been loaded again over a storage that is still empty: no
\* write has succeeded so far, this load's rollover save included
C21_Witness ==
    /\ lastOp.op = "load"
    /\ storage = EmptyStorage
    /\ loaded
    /\ settings.theme = dark
    /\ heap[settings.stats].lastResetDate = today

\* -------------------------------------------------------------------- C22
\* Space is pressed outside an input field
SpacePressed ==
    /\ Calls("keypress")
    /\ lastOp'.arg.key = " "
    /\ lastOp'.arg.tagName \notin {"INPUT", "TEXTAREA"}

\* C22: a Space press outside an input field pauses a running timer; it starts
\* a stopped timer and resumes a paused one, which leaves the timer running
\* unless the session completes inside that call; and no Space press leaves
\* more than one live ticker.
C22_SpaceToggles ==
    [][SpacePressed =>
          /\ state = TimerState.RUNNING => state' = TimerState.PAUSED
          /\ state # TimerState.RUNNING =>
                \/ state' = TimerState.RUNNING
                \/ /\ state' = TimerState.STOPPED
                   /\ EventsOfType(events', "complete") # {}
          /\ Cardinality(activeIntervals') <= 1]_vars

\* Space has resumed a paused timer: it runs on one ticker
C22_Witness ==
    /\ lastOp.op = "keypress"
    /\ lastOp.arg.key = " "
    /\ lastOp.arg.tagName = "BODY"
    /\ lastOp.from = TimerState.PAUSED
    /\ state = TimerState.RUNNING
    /\ Cardinality(activeIntervals) = 1
    /\ intervalId \in activeIntervals

\* -------------------------------------------------------------------- C23
\* every character of text is a digit
AllDigits(text) == \A i \in 1..Len(text) : IsDigit(text[i])

\* the examples the specification gives
FormatExamples ==
    /\ lastOp'.arg = 0 => result' = <<"0", "0", ":", "0", "0">>
    /\ lastOp'.arg = 65 => result' = <<"0", "1", ":", "0", "5">>
    /\ lastOp'.arg = 3599 => result' = <<"5", "9", ":", "5", "9">>

\* C23 as claimed: for every s in 0..120*60, formatTime(s) is MM:SS: two
\* digits that read floor(s / 60), a colon, two digits that read s mod 60.
C23_FormatIsTwoDigitFields ==
    [][Calls("formatTime") =>
          /\ Len(result') = 5
          /\ result'[3] = ":"
          /\ AllDigits(SubSeq(result', 1, 2))
          /\ AllDigits(SubSeq(result', 4, 5))
          /\ DigitsValue(SubSeq(result', 1, 2)) = lastOp'.arg \div 60
          /\ DigitsValue(SubSeq(result', 4, 5)) = lastOp'.arg % 60
          /\ FormatExamples]_vars

\* C23 as amended: for every s in 0..120*60, formatTime(s) is the decimal
\* digits of floor(s / 60), padded with a zero to two digits and three digits
\* long from 100 minutes on, a colon, and two digits that read s mod 60.
C23_FormatPadsToTwoDigits ==
    [][Calls("formatTime") =>
          LET n == Len(result') IN
          /\ n >= 5
          /\ result'[n - 2] = ":"
          /\ AllDigits(SubSeq(result', 1, n - 3))
          /\ AllDigits(SubSeq(result', n - 1, n))
          /\ DigitsValue(SubSeq(result', 1, n - 3)) = lastOp'.arg \div 60
          /\ DigitsValue(SubSeq(result', n - 1, n)) = lastOp'.arg % 60
          /\ n > 5 => result'[1] # "0"
          /\ FormatExamples]_vars

\* the clock has shown the second after the start of the longest session
C23_Witness ==
    /\ lastOp.op = "formatTime"
    /\ lastOp.arg = MaxSeconds - 1
    /\ result = <<"1", "1", "9", ":", "5", "9">>

\* -------------------------------------------------------------------- C24
\* C24: start() called on a timer that has completed and was not reloaded
\* since (status stopped, timeLeft = 0) emits no completion notification.
C24_NoCompletionWithoutReload ==
    [][(Calls("start") /\ state = TimerState.STOPPED /\ timeLeft = 0) =>
          EventsOfType(events', "complete") = {}]_vars

\* ------------------------------------------------------------------- C25
\* the step emitted the completion of a session of mode m
Completed(m) ==
    \E i \in EventsOfType(events', "complete") : events'[i].mode = m

\* C25: sessionsToday and totalFocusTime change only when the countdown of a
\* focus session completes: that step adds exactly 1 to sessionsToday, makes
\* totalFocusTime larger and leaves the new stats in localStorage; every other
\* step of the timer (start, pause, resume, reset, setMode, the completion of
\* a break) leaves both counters as they were.
C25_CountersChangeAtFocusCompletionOnly ==
    [][/\ Completed("focus") =>
             /\ heap'[settings'.stats].sessionsToday =
                   heap[settings.stats].sessionsToday + 1
             /\ heap'[settings'.stats].totalFocusTime >
                   heap[settings.stats].totalFocusTime
             /\ StoredStats(storage') = heap'[settings'.stats]
       /\ (\/ ~Completed("focus")
           \/ \E op \in {"start", "pause", "resume", "reset", "setMode"} :
                 Calls(op)) =>
             /\ heap'[settings'.stats].sessionsToday =
                   heap[settings.stats].sessionsToday
             /\ heap'[settings'.stats].totalFocusTime =
                   heap[settings.stats].totalFocusTime]_vars

\* ------------------------------------------------------------------- C26
\* C26: the minutes a focus completion adds to totalFocusTime are the length
\* of the session that completed, totalTime / 60, also when the settings panel
\* changed the focus duration while that session was running or paused.
C26_CreditIsSessionLength ==
    [][Completed("focus") =>
          heap'[settings'.stats].totalFocusTime
             - heap[settings.stats].totalFocusTime = totalTime \div 60]_vars

\* ------------------------------------------------------------------- C27
\* C27: once the application is initialised, and after every save of the
\* settings panel and every resetToDefaults, the timer's durations are 60
\* times the store's durations, and the store's durations are integers in
\* 1..120 (focus) and 1..30 (break).
C27_TimerFollowsStore ==
    /\ InRange(settings.focusDuration, 1, 120) /\ settings.focusDuration.tenths = 0
    /\ InRange(settings.breakDuration, 1, 30) /\ settings.breakDuration.tenths = 0
    /\ focusDuration = 60 * settings.focusDuration.v
    /\ breakDuration = 60 * settings.breakDuration.v

\* ------------------------------------------------------------------- C28
\* C28: resetToDefaults() leaves every setting at its default, sessionsToday
\* and totalFocusTime at 0 included, whatever was done to the store before;
\* and no operation alters the default values the constructor built.
C28_ResetRestoresDefaults ==
    [][/\ heap'[DefaultsStats] = ZeroStats
       /\ Calls("resetToDefaults") => DefaultsLoaded(settings', heap')]_vars

\* ------------------------------------------------------------------- C29
\* the settings se over the heap hp and te over tp hold the same values
SameSettings(se, hp, te, tp) ==
    /\ se.focusDuration = te.focusDuration
    /\ se.breakDuration = te.breakDuration
    /\ se.soundEnabled = te.soundEnabled
    /\ se.theme = te.theme
    /\ hp[se.stats] = tp[te.stats]

\* C29: with every write to localStorage succeeding, a store constructed on
\* the same day from the storage a first store left holds the settings the
\* first store had in memory: the two durations, soundEnabled, theme,
\* sessionsToday, totalFocusTime and lastResetDate.
C29_LoadReturnsWhatWasSaved ==
    [][(Calls("load") /\ loaded) =>
          (loaded' /\ SameSettings(settings, heap, settings', heap'))]_vars

\* ------------------------------------------------------------------- C30
\* a session is running with time left and its interval armed
Ticking ==
    /\ state = TimerState.RUNNING
    /\ timeLeft > 0
    /\ intervalId \in activeIntervals

\* the session has just completed: one completion notification
JustCompleted ==
    /\ state = TimerState.STOPPED
    /\ timeLeft = 0
    /\ Cardinality(EventsOfType(events, "complete")) = 1

\* pause, reset, setMode or destroy was the last call
Intervened == lastOp.op \in {"pause", "reset", "setMode", "destroy"}

\* C30: a running session with n > 0 seconds left whose interval keeps firing
\* completes unless pause, reset, setMode or destroy is called: the status
\* becomes stopped with timeLeft 0 and one completion notification; each
\* firing takes exactly 1 from timeLeft and the completion comes with the
\* firing that reaches 0, so after exactly n of them.
C30_SessionCompletes ==
    /\ Ticking ~> (JustCompleted \/ Intervened)
    /\ [][(Ticking /\ Calls("interval")) =>
             /\ timeLeft' = timeLeft - 1
             /\ timeLeft' > 0 => (Ticking' /\ EventsOfType(events', "complete") = {})
             /\ timeLeft' = 0 => JustCompleted']_vars

\* the interval counted a session down to its completion
C30_Witness ==
    /\ lastOp.op = "interval"
    /\ lastOp.from = TimerState.RUNNING
    /\ JustCompleted
    /\ totalTime = 60

====
